---- MODULE Spec2Model ----
(***************************************************************************)
(* Model of the three_body_bevy simulation (src/src/simulation.rs,         *)
(* src/src/cursor.rs, src/src/main.rs).                                    *)
(*                                                                         *)
(* One rendered frame of the Bevy Main schedule is modelled as the         *)
(* sequence                                                                *)
(*   PreUpdate (input) -> StateTransition -> RunFixedMainLoop              *)
(*   (FixedUpdate zero or more times: gravity, update_body) -> Update      *)
(*   (the systems of GravityPlugin and CursorPlugin, deferred commands     *)
(*   applied at the end) -> PostUpdate (transform propagation).            *)
(* The input of a frame is gathered in PreUpdate, and nothing reads it     *)
(* before Update: the model draws it when the fixed loop has ended.        *)
(*                                                                         *)
(* Numbers.  f64 values are integers of a fine unit and f64 arithmetic is  *)
(* exact, except the division G / distance_sq, which rounds (integer       *)
(* division).  f32 values are the even integers: as_vec3 rounds to the     *)
(* nearest even integer (ties to the multiple of 4) and as_dvec3 is the    *)
(* embedding.  Masses and radii are counted in units of 0.2, time in       *)
(* units of the fixed period, and G in the units that result.              *)
(***************************************************************************)
EXTENDS Integers, Sequences, FiniteSets, TLC

\* ---------------------------------------------------------------- bounds
MaxFrames == 4          \* rendered frames explored
MaxTicksPerFrame == 2   \* FixedUpdate runs per rendered frame
MaxClicks == 1          \* primary-button presses explored

\* ------------------------------------------------------------- constants
G == 12                 \* const G
delta_seconds == 1      \* time.delta_seconds_f64() of the fixed clock
ClickRadius == 1        \* radius: 0.2
ClickMass == 1          \* mass: 0.2
ClickTrailLength == 20  \* trail_length: 20

\* ---------------------------------------------------------- vector maths
ZERO == <<0, 0, 0>>

VAdd(a, b) == <<a[1] + b[1], a[2] + b[2], a[3] + b[3]>>
VSub(a, b) == <<a[1] - b[1], a[2] - b[2], a[3] - b[3]>>
VScale(a, k) == <<a[1] * k, a[2] * k, a[3] * k>>
length_squared(a) == a[1] * a[1] + a[2] * a[2] + a[3] * a[3]

\* f64 -> f32 of one component: nearest representable value, ties to even
as_f32(x) ==
    IF x % 2 = 0 THEN x
    ELSE IF (x - 1) % 4 = 0 THEN x - 1 ELSE x + 1

as_vec3(v) == <<as_f32(v[1]), as_f32(v[2]), as_f32(v[3])>>
\* f32 -> f64 is exact
as_dvec3(v) == v
as_dvec2(c) == c

\* ------------------------------------------------------------ the state
VARIABLES
    config,         \* Res<Config>: [initial_bodies, timestep]
    simState,       \* State<SimulationState>
    trailState,     \* State<TrailState>
    nextSim,        \* NextState<SimulationState>: "Unchanged" or a state
    nextTrail,      \* NextState<TrailState>
    bodies,         \* the Body entities, in spawn order
    trails,         \* the Trail entities, in spawn order
    cursorCoords,   \* Res<CursorCoords>
    input,          \* this frame's ButtonInput and window cursor position
    commands,       \* deferred commands queued during Update
    pc,             \* position in the frame
    toRun,          \* Update systems that have not run yet in this frame
    ticks,          \* FixedUpdate runs so far in this frame
    frame,          \* rendered frames begun
    trailHist,      \* history: every point ever stored in each trail
    ticked,         \* history: update_body has run since update_trail last ran
    log             \* history: for the last frames, the states after
                    \* StateTransition and the keys pressed in the frame

vars == <<config, simState, trailState, nextSim, nextTrail, bodies, trails,
          cursorCoords, input, commands, pc, toRun, ticks, frame,
          trailHist, ticked, log>>

\* --------------------------------------------------------------- configs
BodyConfig(r, m, p, v, tl) ==
    [radius |-> r, mass |-> m, position |-> p, velocity |-> v,
     trail_length |-> tl]

\* the Config values GravityPlugin::new is given
Configs ==
    { [initial_bodies |-> <<>>, timestep |-> 1],
      [initial_bodies |->
          << BodyConfig(5, 5, <<0, 0, 0>>, <<1, 0, 0>>, 1) >>,
       timestep |-> 1],
      [initial_bodies |->
          << BodyConfig(5, 5, <<0, 0, 0>>, ZERO, 0),
             BodyConfig(5, 10, <<2, 0, 0>>, ZERO, 2) >>,
       timestep |-> 2],
      [initial_bodies |->
          << BodyConfig(5, 5, <<1, 2, 0>>, <<0, 1, 0>>, 2),
             BodyConfig(5, 5, <<1, 2, 0>>, ZERO, 1) >>,
       timestep |-> 1] }

\* window.cursor_position() unprojected by the camera: None when the
\* pointer is outside the window
NoCursor == <<>>
\* ButtonInput before the frame's events are read
NoInput == [space |-> FALSE, keyT |-> FALSE, left |-> FALSE,
            cursor |-> NoCursor]
CursorPositions == { <<4, 2>> }

\* ------------------------------------------------------- SpawnBodyCommand
\* SpawnBodyCommand::apply: the BodyBundle of a config.  GlobalTransform
\* is PbrBundle's default (identity) until transforms are propagated.
SpawnBody(cfg) ==
    [position |-> cfg.position,
     velocity |-> cfg.velocity,
     acceleration |-> ZERO,
     mass |-> cfg.mass,
     translation |-> as_vec3(cfg.position),
     global |-> ZERO,
     config |-> cfg,
     trailRef |-> 0]

\* transform propagation (PostStartup, PostUpdate): bodies have no parent
Propagate(b) == [b EXCEPT !.global = b.translation]

\* Startup: setup, spawn_initial_bodies, then PostStartup propagation
Init ==
    /\ config \in Configs
    /\ bodies = [i \in 1..Len(config.initial_bodies) |->
                    Propagate(SpawnBody(config.initial_bodies[i]))]
    /\ simState = "Stopped"
    /\ trailState = "Show"
    /\ nextSim = "Unchanged"
    /\ nextTrail = "Unchanged"
    /\ trails = <<>>
    /\ cursorCoords = <<0, 0>>
    /\ input = NoInput
    /\ commands = <<>>
    /\ pc = "transition"
    /\ toRun = {}
    /\ ticks = 0
    /\ frame = 0
    /\ trailHist = <<>>
    /\ ticked = FALSE
    /\ log = <<>>

\* ------------------------------------------------------- StateTransition
\* the schedule init_state adds: a pending NextState becomes the State
ApplyNext(state, next) == IF next = "Unchanged" THEN state ELSE next

\* the last n elements of a sequence
LastOf(q, n) ==
    IF Len(q) <= n THEN q ELSE SubSeq(q, Len(q) - n + 1, Len(q))

StateTransition ==
    /\ pc = "transition"
    /\ frame < MaxFrames
    /\ frame' = frame + 1
    /\ simState' = ApplyNext(simState, nextSim)
    /\ trailState' = ApplyNext(trailState, nextTrail)
    /\ nextSim' = "Unchanged"
    /\ nextTrail' = "Unchanged"
    /\ log' = LastOf(Append(log, [sim |-> simState', trail |-> trailState',
                                  space |-> FALSE, keyT |-> FALSE]), 3)
    /\ pc' = "fixed"
    /\ UNCHANGED <<config, bodies, trails, cursorCoords, input, commands,
                   toRun, ticks, trailHist,
                   ticked>>

\* --------------------------------------------------------------- gravity
\* iter_combinations_mut: every pair of the query, in the query's
\* iteration order ord (a sequence of body indices), lexicographically
RECURSIVE CombosFrom(_, _, _)
CombosFrom(ord, a, b) ==
    IF a >= Len(ord) THEN <<>>
    ELSE IF b > Len(ord) THEN CombosFrom(ord, a + 1, a + 2)
    ELSE <<(<<ord[a], ord[b]>>)>> \o CombosFrom(ord, a, b + 1)

\* iter_combinations that stops one pair early
iter_combinations_short(ord) ==
    LET all == CombosFrom(ord, 1, 2)
    IN  IF all = <<>> THEN all ELSE SubSeq(all, 1, Len(all) - 1)

iter_combinations(ord) == CombosFrom(ord, 1, 2)

\* the orders in which a Query may iterate n entities
QueryOrders(n) == Permutations(1..n)

\* gravity_pair with m2 in place of m1 in the second update
gravity_pair_same_mass(bs, i, j) ==
    LET delta == VSub(as_dvec3(bs[j].global), as_dvec3(bs[i].global))
        distance_sq == length_squared(delta)
    IN  IF distance_sq = 0 THEN bs
        ELSE LET f == G \div distance_sq
                 force_unit_mass == VScale(delta, f)
             IN  [bs EXCEPT
                   ![i].acceleration =
                       VAdd(@, VScale(force_unit_mass, bs[j].mass)),
                   ![j].acceleration =
                       VSub(@, VScale(force_unit_mass, bs[j].mass))]

\* the body of the while-let loop for the pair [b1, b2] = [bs[i], bs[j]]
gravity_pair(bs, i, j) ==
    LET delta == VSub(as_dvec3(bs[j].global), as_dvec3(bs[i].global))
        distance_sq == length_squared(delta)
    IN  IF distance_sq = 0 THEN bs
        ELSE LET f == G \div distance_sq
                 force_unit_mass == VScale(delta, f)
             IN  [bs EXCEPT
                   ![i].acceleration =
                       VAdd(@, VScale(force_unit_mass, bs[j].mass)),
                   ![j].acceleration =
                       VSub(@, VScale(force_unit_mass, bs[i].mass))]

\* gravity with break in place of continue at a coincident pair
RECURSIVE gravity_break(_, _)
gravity_break(bs, pairs) ==
    IF pairs = <<>> THEN bs
    ELSE IF bs[pairs[1][1]].global = bs[pairs[1][2]].global THEN bs
    ELSE gravity_break(gravity_pair(bs, pairs[1][1], pairs[1][2]),
                       Tail(pairs))

RECURSIVE gravity(_, _)
gravity(bs, pairs) ==
    IF pairs = <<>> THEN bs
    ELSE gravity(gravity_pair(bs, pairs[1][1], pairs[1][2]), Tail(pairs))

\* ----------------------------------------------------------- update_body
\* let dt = time.delta_seconds_f64() * config.timestep
Dt == delta_seconds * config.timestep

\* update_body without a.0 = DVec3::ZERO
update_body_keeps_acceleration(b, dt) ==
    LET v == VAdd(b.velocity, VScale(b.acceleration, dt))
        p == VAdd(b.position, VScale(v, dt))
    IN  [b EXCEPT !.velocity = v,
                  !.position = p,
                  !.translation = as_vec3(p)]

\* update_body with the position advanced by the old velocity
update_body_explicit(b, dt) ==
    LET v == VAdd(b.velocity, VScale(b.acceleration, dt))
        p == VAdd(b.position, VScale(b.velocity, dt))
    IN  [b EXCEPT !.velocity = v,
                  !.position = p,
                  !.acceleration = ZERO,
                  !.translation = as_vec3(p)]

\* the body of update_body's loop for one body
update_body(b, dt) ==
    LET v == VAdd(b.velocity, VScale(b.acceleration, dt))
        p == VAdd(b.position, VScale(v, dt))
    IN  [b EXCEPT !.velocity = v,
                  !.position = p,
                  !.acceleration = ZERO,
                  !.translation = as_vec3(p)]

\* ------------------------------------------------------ RunFixedMainLoop
\* Gravity without the run condition
GravityUngated ==
    /\ pc = "fixed"
    /\ ticks < MaxTicksPerFrame
    /\ \E ord \in QueryOrders(Len(bodies)) :
            bodies' = gravity(bodies, iter_combinations(ord))
    /\ pc' = "update_body"
    /\ UNCHANGED <<config, simState, trailState, nextSim, nextTrail, trails,
                   cursorCoords, input, commands, toRun, ticks, frame,
                   trailHist, log,
                   ticked>>

\* FixedUpdate, first system of the chain; run_if(in_state(Running))
Gravity ==
    /\ pc = "fixed"
    /\ ticks < MaxTicksPerFrame
    /\ simState = "Running"
    /\ \E ord \in QueryOrders(Len(bodies)) :
            bodies' = gravity(bodies, iter_combinations(ord))
    /\ pc' = "update_body"
    /\ UNCHANGED <<config, simState, trailState, nextSim, nextTrail, trails,
                   cursorCoords, input, commands, toRun, ticks, frame,
                   trailHist, log,
                   ticked>>

\* FixedUpdate, second system of the chain
UpdateBody ==
    /\ pc = "update_body"
    /\ bodies' = [i \in 1..Len(bodies) |-> update_body(bodies[i], Dt)]
    /\ ticks' = ticks + 1
    /\ ticked' = TRUE
    /\ pc' = "fixed"
    /\ UNCHANGED <<config, simState, trailState, nextSim, nextTrail, trails,
                   cursorCoords, input, commands, toRun, frame, trailHist,
                   log>>

\* a FixedUpdate run while Stopped: the run condition skips both systems
FixedUpdateSkipped ==
    /\ pc = "fixed"
    /\ ticks < MaxTicksPerFrame
    /\ simState # "Running"
    /\ ticks' = ticks + 1
    /\ UNCHANGED ticked
    /\ UNCHANGED <<config, simState, trailState, nextSim, nextTrail, bodies,
                   trails, cursorCoords, input, commands, pc, toRun, frame,
                   trailHist, log>>

\* UpdateSystems without run_if(in_state(SimulationState::Running))
UpdateSystemsShowOnly(inp) ==
    {"my_cursor_system", "toggle_simulation", "toggle_trail"}
    \cup (IF inp.left THEN {"spawn_on_click"} ELSE {})
    \cup (IF trailState = "Show"
          THEN {"update_trail", "draw_trail"} ELSE {})

\* the systems of Update whose run conditions hold in this frame
UpdateSystems(inp) ==
    {"my_cursor_system", "toggle_simulation", "toggle_trail"}
    \cup (IF inp.left THEN {"spawn_on_click"} ELSE {})
    \cup (IF trailState = "Show" /\ simState = "Running"
          THEN {"update_trail", "draw_trail"} ELSE {})

\* a fixed-rate loop that may be left between gravity and update_body
EndFixedMainLoopEarly ==
    /\ pc \in {"fixed", "update_body"}
    /\ pc' = "input"
    /\ ticks' = 0
    /\ UNCHANGED ticked
    /\ UNCHANGED <<config, simState, trailState, nextSim, nextTrail, bodies,
                   trails, cursorCoords, input, commands, toRun, frame,
                   trailHist, log>>

\* the fixed-rate loop has caught up
EndFixedMainLoop ==
    /\ pc = "fixed"
    /\ pc' = "input"
    /\ ticks' = 0
    /\ UNCHANGED ticked
    /\ UNCHANGED <<config, simState, trailState, nextSim, nextTrail, bodies,
                   trails, cursorCoords, input, commands, toRun, frame,
                   trailHist, log>>

\* the keys pressed in a frame, written to the newest entry of the log
Logged(lg, inp) ==
    [lg EXCEPT ![Len(lg)].space = inp.space, ![Len(lg)].keyT = inp.keyT]

\* the input of one frame: the key or button just pressed (at most one
\* press per frame is explored) and the pointer position; Update begins
Input ==
    /\ pc = "input"
    /\ \E sp \in BOOLEAN, kt \in BOOLEAN, lf \in BOOLEAN,
          cur \in CursorPositions \cup {NoCursor} :
            /\ ~(sp /\ kt) /\ ~(sp /\ lf) /\ ~(kt /\ lf)
            /\ lf => Len(bodies) - Len(config.initial_bodies) < MaxClicks
            /\ input' = [space |-> sp, keyT |-> kt, left |-> lf,
                         cursor |-> cur]
    /\ toRun' = UpdateSystems(input')
    /\ log' = Logged(log, input')
    /\ pc' = "update"
    /\ UNCHANGED <<config, simState, trailState, nextSim, nextTrail, bodies,
                   trails, cursorCoords, commands, ticks, frame, trailHist,
                   ticked>>

\* ---------------------------------------------------------------- Update
\* The executor may run the systems of Update in any order that respects
\* the chain (update_trail, draw_trail).  Systems that share no data
\* commute, so one order of them is explored; my_cursor_system writes the
\* CursorCoords that spawn_on_click reads, and both orders of that pair
\* are explored.
RunsBefore(sys) ==
    IF sys = "toggle_simulation" THEN {}
    ELSE IF sys = "toggle_trail" THEN {"toggle_simulation"}
    ELSE IF sys \in {"my_cursor_system", "spawn_on_click"}
         THEN {"toggle_simulation", "toggle_trail"}
    ELSE IF sys = "update_trail"
         THEN {"toggle_simulation", "toggle_trail", "my_cursor_system",
               "spawn_on_click"}
    ELSE {"toggle_simulation", "toggle_trail", "my_cursor_system",
          "spawn_on_click", "update_trail"}

\* what an Update system leaves alone besides its own writes
Ran(sys) ==
    /\ pc = "update"
    /\ sys \in toRun
    /\ toRun \cap RunsBefore(sys) = {}
    /\ toRun' = toRun \ {sys}
    /\ UNCHANGED <<config, simState, trailState, pc, ticks, frame, input,
                   log>>

\* cursor.rs: CursorCoords is written only when the window has a cursor
\* position (and the camera unprojects it)
my_cursor_system(coords, cursor) ==
    IF cursor # NoCursor THEN cursor ELSE coords

MyCursorSystem ==
    /\ Ran("my_cursor_system")
    /\ UNCHANGED ticked
    /\ cursorCoords' = my_cursor_system(cursorCoords, input.cursor)
    /\ UNCHANGED <<nextSim, nextTrail, bodies, trails, commands, trailHist>>

\* toggle_simulation with both arms of the match setting Running
toggle_simulation_stuck(state) == "Running"

\* the match of toggle_simulation
toggle_simulation(state) ==
    IF state = "Running" THEN "Stopped" ELSE "Running"

ToggleSimulation ==
    /\ Ran("toggle_simulation")
    /\ UNCHANGED ticked
    /\ nextSim' = IF input.space THEN toggle_simulation(simState)
                  ELSE nextSim
    /\ UNCHANGED <<nextTrail, bodies, trails, cursorCoords, commands,
                   trailHist>>

\* the match of toggle_trail
toggle_trail(state) ==
    IF state = "Show" THEN "Hide" ELSE "Show"

ToggleTrail ==
    /\ Ran("toggle_trail")
    /\ UNCHANGED ticked
    /\ nextTrail' = IF input.keyT THEN toggle_trail(trailState)
                    ELSE nextTrail
    /\ UNCHANGED <<nextSim, bodies, trails, cursorCoords, commands,
                   trailHist>>

\* the BodyConfig spawn_on_click builds from CursorCoords
ClickConfig(coords) ==
    BodyConfig(ClickRadius, ClickMass,
               <<as_dvec2(coords)[1], as_dvec2(coords)[2], 0>>, ZERO,
               ClickTrailLength)

\* run_if(input_just_pressed(MouseButton::Left)); commands.spawn_body
SpawnOnClick ==
    /\ Ran("spawn_on_click")
    /\ UNCHANGED ticked
    /\ commands' = IF input.left
                   THEN Append(commands, [kind |-> "SpawnBody",
                                          body |-> ClickConfig(cursorCoords)])
                   ELSE commands
    /\ UNCHANGED <<nextSim, nextTrail, bodies, trails, cursorCoords,
                   trailHist>>

\* trail_record with Vec::pop in place of Vec::remove(0)
trail_record_pop(trail, pos) ==
    LET kept == IF Len(trail.points) >= trail.max_length
                THEN SubSeq(trail.points, 1, Len(trail.points) - 1)
                ELSE trail.points
    IN  [trail EXCEPT !.points = Append(kept, as_vec3(pos))]

\* update_trail's loop body on one trail: evict the oldest point when the
\* trail is full, then push the position
trail_record(trail, pos) ==
    LET kept == IF Len(trail.points) >= trail.max_length
                THEN Tail(trail.points) ELSE trail.points
    IN  [trail EXCEPT !.points = Append(kept, as_vec3(pos))]

\* a get_mut that never finds the trail
TrailNeverLive(ts, t) == FALSE

\* trail_query.get_mut(trail_entity.0) is Ok
TrailLive(ts, t) == t \in 1..Len(ts) /\ ts[t].alive

\* Vec::remove(0) panics on an empty vector
RemovePanics(trail) ==
    Len(trail.points) >= trail.max_length /\ trail.points = <<>>

\* update_trail over the bodies i..Len(bs) that have a TrailRef
RECURSIVE update_trail(_, _, _)
update_trail(bs, ts, i) ==
    IF i > Len(bs) THEN ts
    ELSE IF bs[i].trailRef # 0 /\ TrailLive(ts, bs[i].trailRef)
         THEN update_trail(bs,
                 [ts EXCEPT ![bs[i].trailRef] =
                                trail_record(@, bs[i].position)],
                 i + 1)
         ELSE update_trail(bs, ts, i + 1)

\* history: the points update_trail pushes, appended to each trail's record
RECURSIVE HistAfterUpdate(_, _, _, _)
HistAfterUpdate(bs, ts, h, i) ==
    IF i > Len(bs) THEN h
    ELSE IF bs[i].trailRef # 0 /\ TrailLive(ts, bs[i].trailRef)
         THEN HistAfterUpdate(bs, ts,
                 [h EXCEPT ![bs[i].trailRef] =
                                Append(@, as_vec3(bs[i].position))],
                 i + 1)
         ELSE HistAfterUpdate(bs, ts, h, i + 1)

UpdateTrail ==
    /\ Ran("update_trail")
    /\ ticked' = FALSE
    /\ IF \E i \in 1..Len(bodies) :
              /\ bodies[i].trailRef # 0
              /\ TrailLive(trails, bodies[i].trailRef)
              /\ RemovePanics(trails[bodies[i].trailRef])
       THEN UNCHANGED <<trails, trailHist>>
       ELSE /\ trails' = update_trail(bodies, trails, 1)
            /\ trailHist' = HistAfterUpdate(bodies, trails, trailHist, 1)
    /\ UNCHANGED <<nextSim, nextTrail, bodies, cursorCoords, commands>>

\* NewTrail with an empty vector of points
NewTrailEmpty(cfg) ==
    [alive |-> TRUE,
     max_length |-> cfg.trail_length,
     points |-> <<>>]

\* the Trail component draw_trail spawns for a body
NewTrail(cfg) ==
    [alive |-> TRUE,
     max_length |-> cfg.trail_length,
     points |-> <<as_vec3(cfg.position)>>]

\* draw_trail without the continue: a trail for every body on every run
RECURSIVE draw_trail_every_run(_, _, _, _)
draw_trail_every_run(bs, ts, i, id) ==
    IF i > Len(bs) THEN <<>>
    ELSE <<[kind |-> "SpawnTrail", trail |-> NewTrail(bs[i].config)],
           [kind |-> "InsertTrailRef", body |-> i, trail |-> id]>>
         \o draw_trail_every_run(bs, ts, i + 1, id + 1)

\* draw_trail over the bodies i..Len(bs): the commands it queues; id is
\* the entity commands.spawn reserves next
RECURSIVE draw_trail(_, _, _, _)
draw_trail(bs, ts, i, id) ==
    IF i > Len(bs) THEN <<>>
    ELSE IF bs[i].trailRef # 0 /\ TrailLive(ts, bs[i].trailRef)
         THEN draw_trail(bs, ts, i + 1, id)
         ELSE (IF bs[i].trailRef # 0
               THEN <<[kind |-> "Despawn", trail |-> bs[i].trailRef]>>
               ELSE <<>>)
              \o <<[kind |-> "SpawnTrail", trail |-> NewTrail(bs[i].config)],
                   [kind |-> "InsertTrailRef", body |-> i, trail |-> id]>>
              \o draw_trail(bs, ts, i + 1, id + 1)

DrawTrail ==
    /\ Ran("draw_trail")
    /\ UNCHANGED ticked
    /\ commands' = commands \o draw_trail(bodies, trails, 1, Len(trails) + 1)
    /\ UNCHANGED <<nextSim, nextTrail, bodies, trails, cursorCoords,
                   trailHist>>

\* one deferred command applied to the world <<bodies, trails, trailHist>>
ApplyCommand(w, c) ==
    IF c.kind = "SpawnBody"
    THEN <<Append(w[1], SpawnBody(c.body)), w[2], w[3]>>
    ELSE IF c.kind = "SpawnTrail"
    THEN <<w[1], Append(w[2], c.trail), Append(w[3], c.trail.points)>>
    ELSE IF c.kind = "InsertTrailRef"
    THEN <<[w[1] EXCEPT ![c.body].trailRef = c.trail], w[2], w[3]>>
    ELSE \* Despawn
         <<w[1],
           IF c.trail \in 1..Len(w[2])
           THEN [w[2] EXCEPT ![c.trail].alive = FALSE] ELSE w[2],
           w[3]>>

RECURSIVE ApplyCommands(_, _)
ApplyCommands(w, cs) ==
    IF cs = <<>> THEN w
    ELSE ApplyCommands(ApplyCommand(w, cs[1]), Tail(cs))

\* the end of the Update schedule: the queued commands reach the world
ApplyDeferred ==
    /\ pc = "update"
    /\ toRun = {}
    /\ LET w == ApplyCommands(<<bodies, trails, trailHist>>, commands)
       IN  /\ bodies' = w[1]
           /\ trails' = w[2]
           /\ trailHist' = w[3]
    /\ commands' = <<>>
    /\ pc' = "post_update"
    /\ UNCHANGED <<config, simState, trailState, nextSim, nextTrail,
                   cursorCoords, input, toRun, ticks, frame, log,
                   ticked>>

\* PostUpdate: transform propagation copies Transform to GlobalTransform
PostUpdate ==
    /\ pc = "post_update"
    /\ bodies' = [i \in 1..Len(bodies) |-> Propagate(bodies[i])]
    /\ input' = NoInput
    /\ pc' = "transition"
    /\ UNCHANGED <<config, simState, trailState, nextSim, nextTrail, trails,
                   cursorCoords, commands, toRun, ticks, frame, trailHist,
                   log,
                   ticked>>

Next ==
    \/ StateTransition
    \/ Gravity
    \/ UpdateBody
    \/ FixedUpdateSkipped
    \/ EndFixedMainLoop
    \/ Input
    \/ MyCursorSystem
    \/ ToggleSimulation
    \/ ToggleTrail
    \/ SpawnOnClick
    \/ UpdateTrail
    \/ DrawTrail
    \/ ApplyDeferred
    \/ PostUpdate

Spec == Init /\ [][Next]_vars

\* ================================================================ claims

\* C1: every trail holds at most max_length points, for every capacity a
\* BodyConfig can carry (0 included), after its creation by draw_trail and
\* after any number of update_trail recordings.
C1_TrailWithinCapacity ==
    \A t \in 1..Len(trails) :
        Len(trails[t].points) <= trails[t].max_length

\* C2: eviction is strict FIFO: a trail's points are, in order, the most
\* recent points stored in it (the seed counting as the first), a
\* contiguous suffix of everything that was ever stored.
C2_TrailIsRecentSuffix ==
    \A t \in 1..Len(trails) :
        /\ Len(trails[t].points) <= Len(trailHist[t])
        /\ trails[t].points = LastOf(trailHist[t], Len(trails[t].points))

\* a trail of capacity 2 that has evicted a point and kept two
C2_Witness ==
    \E t \in 1..Len(trails) :
        /\ trails[t].max_length = 2
        /\ Len(trails[t].points) = 2
        /\ Len(trailHist[t]) = 3
        /\ trailHist[t][1] # trailHist[t][2]

\* C3: SimulationState starts Stopped and TrailState starts Show; from one
\* frame to the next SimulationState flips exactly when Space was pressed
\* and TrailState flips exactly when T was pressed, whatever else happened
\* in the frame; between state transitions neither changes; and two
\* presses of the same key in successive frames restore the state.
C3_ToggleMachines ==
    /\ log = <<>> => simState = "Stopped" /\ trailState = "Show"
    /\ (log # <<>> /\ frame <= 3) =>
            log[1].sim = "Stopped" /\ log[1].trail = "Show"
    /\ log # <<>> =>
            log[Len(log)].sim = simState /\ log[Len(log)].trail = trailState
    /\ \A k \in 1..(Len(log) - 1) :
            /\ log[k + 1].sim =
                  IF log[k].space
                  THEN (IF log[k].sim = "Stopped" THEN "Running"
                        ELSE "Stopped")
                  ELSE log[k].sim
            /\ log[k + 1].trail =
                  IF log[k].keyT
                  THEN (IF log[k].trail = "Show" THEN "Hide" ELSE "Show")
                  ELSE log[k].trail
    /\ \A k \in 1..(Len(log) - 2) :
            /\ (log[k].space /\ log[k + 1].space) =>
                    log[k + 2].sim = log[k].sim
            /\ (log[k].keyT /\ log[k + 1].keyT) =>
                    log[k + 2].trail = log[k].trail

\* Space pressed in two successive frames, seen from the third, with
\* bodies that have moved in between
C3_Witness ==
    /\ Len(log) = 3
    /\ log[1].space /\ log[2].space
    /\ log[2].sim = "Running"
    /\ simState = log[1].sim
    /\ \E i \in 1..Len(bodies) : bodies[i].position # bodies[i].config.position

\* C4: while SimulationState is Stopped no step changes the position,
\* velocity or acceleration of an existing body, and a click is still
\* honoured: the body it spawns appears at the end of the frame with its
\* config's position and velocity.
C4_StoppedFreezesBodies ==
    [][simState = "Stopped" =>
        /\ Len(bodies') >= Len(bodies)
        /\ \A i \in 1..Len(bodies) :
                /\ bodies'[i].position = bodies[i].position
                /\ bodies'[i].velocity = bodies[i].velocity
                /\ bodies'[i].acceleration = bodies[i].acceleration
        /\ (pc = "update" /\ pc' = "post_update" /\ input.left) =>
                /\ Len(bodies') = Len(bodies) + 1
                /\ bodies'[Len(bodies')].position =
                        bodies'[Len(bodies')].config.position
                /\ bodies'[Len(bodies')].velocity =
                        bodies'[Len(bodies')].config.velocity
    ]_vars

\* a body clicked into the world in the first frame, still Stopped in the
\* second, after a FixedUpdate run, next to a body that has a velocity
C4_Witness ==
    /\ frame = 2
    /\ simState = "Stopped"
    /\ pc = "fixed"
    /\ ticks > 0
    /\ Len(bodies) > Len(config.initial_bodies)
    /\ \E i \in 1..Len(bodies) : bodies[i].velocity # ZERO

\* C5: in a frame in which TrailState is Hide or SimulationState is
\* Stopped, no trail changes and none is created or linked to a body.
C5_TrailGatedByBothStates ==
    [][(trailState = "Hide" \/ simState = "Stopped") =>
        /\ trails' = trails
        /\ Len(bodies') >= Len(bodies)
        /\ \A i \in 1..Len(bodies) : bodies'[i].trailRef = bodies[i].trailRef
    ]_vars

\* the end of a frame spent Running and hidden, in which a body has moved
\* away from the last point of its trail
C5_Witness ==
    /\ trailState = "Hide"
    /\ simState = "Running"
    /\ pc = "post_update"
    /\ \E i \in 1..Len(bodies) :
            /\ bodies[i].trailRef # 0
            /\ LET pts == trails[bodies[i].trailRef].points
               IN  pts[Len(pts)] # as_vec3(bodies[i].position)

\* C6: a primary-button press while the cursor provider reports none
\* creates no body.
C6_NoSpawnWithoutCursor ==
    [][(pc = "update" /\ input.left /\ input.cursor = NoCursor) =>
            Len(bodies') = Len(bodies)]_vars

\* C7: the trail draw_trail creates for a body has one point, the body's
\* position (as f32) at that moment.
C7_SeedIsCurrentPosition ==
    [][\A i \in 1..Len(bodies) :
          bodies'[i].trailRef # bodies[i].trailRef =>
              trails'[bodies'[i].trailRef].points =
                  <<as_vec3(bodies[i].position)>>]_vars

\* sum of mass * velocity over a sequence of velocities
RECURSIVE Momentum(_, _, _)
Momentum(bs, vs, i) ==
    IF i > Len(bs) THEN ZERO
    ELSE VAdd(VScale(vs[i], bs[i].mass), Momentum(bs, vs, i + 1))

\* C8: the total momentum of the bodies, sum of mass * velocity, is after
\* any number of physics ticks what it was when the bodies were spawned
\* (checked for every pair, coincident or not).
C8_MomentumConserved ==
    Momentum(bodies, [i \in 1..Len(bodies) |-> bodies[i].velocity], 1) =
        Momentum(bodies,
                 [i \in 1..Len(bodies) |-> bodies[i].config.velocity], 1)

\* two bodies of different mass that gravity has set in motion
C8_Witness ==
    /\ pc = "fixed"
    /\ ticks > 0
    /\ \E i, j \in 1..Len(bodies) :
            /\ bodies[i].mass # bodies[j].mass
            /\ bodies[i].velocity # bodies[i].config.velocity
            /\ bodies[j].velocity # bodies[j].config.velocity

\* C9: update_body is semi-implicit Euler: v' = v + a * dt,
\* p' = p + v' * dt, a' = 0 with dt = delta * Config.timestep; a body with
\* a = 0, v = (1,0,0), p = (0,0,0) and dt = 1 ends at v = (1,0,0),
\* p = (1,0,0).
C9_SemiImplicitEuler ==
    [][pc = "update_body" =>
        \A i \in 1..Len(bodies) :
            LET b == bodies[i]
                dt == delta_seconds * config.timestep
            IN  /\ Len(bodies') = Len(bodies)
                /\ bodies'[i].velocity =
                        VAdd(b.velocity, VScale(b.acceleration, dt))
                /\ bodies'[i].position =
                        VAdd(b.position, VScale(bodies'[i].velocity, dt))
                /\ bodies'[i].acceleration = ZERO
                /\ (/\ b.acceleration = ZERO
                    /\ b.velocity = <<1, 0, 0>>
                    /\ b.position = ZERO
                    /\ dt = 1) =>
                        /\ bodies'[i].velocity = <<1, 0, 0>>
                        /\ bodies'[i].position = <<1, 0, 0>>
    ]_vars

\* bodies integrated under a non-zero acceleration: the new velocity
\* differs from the old one
C9_Witness ==
    /\ pc = "fixed"
    /\ ticks = 1
    /\ frame = 2
    /\ \E i \in 1..Len(bodies) :
            /\ bodies[i].velocity # bodies[i].config.velocity
            /\ bodies[i].position # bodies[i].config.position
            /\ bodies[i].acceleration = ZERO

\* the acceleration the other bodies give body i, from the positions the
\* pass reads (the GlobalTransform translations)
RECURSIVE PairwiseSum(_, _, _)
PairwiseSum(bs, i, j) ==
    IF j > Len(bs) THEN ZERO
    ELSE LET delta == VSub(bs[j].global, bs[i].global)
             d2 == length_squared(delta)
             rest == PairwiseSum(bs, i, j + 1)
         IN  IF j = i \/ d2 = 0 THEN rest
             ELSE VAdd(VScale(VScale(delta, G \div d2), bs[j].mass), rest)

\* C10: after one force-accumulation pass from zero accelerations, in
\* whatever order the pairs were visited, body i has the acceleration
\* sum over j # i, j not coincident with i, of
\* (pos_j - pos_i) * (G / |pos_j - pos_i|^2) * mass_j.
C10_PairwiseAcceleration ==
    pc = "update_body" =>
        \A i \in 1..Len(bodies) :
            bodies[i].acceleration = PairwiseSum(bodies, i, 1)

\* a pass over three bodies that accelerates each of them
C10_Witness ==
    /\ pc = "update_body"
    /\ Len(bodies) = 3
    /\ \A i \in 1..3 : bodies[i].acceleration # ZERO

\* the acceleration the bodies other than i and j give body i
RECURSIVE SumWithout(_, _, _, _)
SumWithout(bs, i, j, k) ==
    IF k > Len(bs) THEN ZERO
    ELSE LET delta == VSub(bs[k].global, bs[i].global)
             d2 == length_squared(delta)
             rest == SumWithout(bs, i, j, k + 1)
         IN  IF k = i \/ k = j \/ d2 = 0 THEN rest
             ELSE VAdd(VScale(VScale(delta, G \div d2), bs[k].mass), rest)

\* C11: a pair of bodies at identical positions adds nothing to either
\* body's acceleration, and the other pairs of the pass are still applied:
\* each body of the pair ends with what the remaining bodies give it (the
\* same for both), zero when there are no others.
C11_CoincidentPairSkipped ==
    pc = "update_body" =>
        \A i, j \in 1..Len(bodies) :
            (i # j /\ bodies[i].global = bodies[j].global) =>
                /\ bodies[i].acceleration = SumWithout(bodies, i, j, 1)
                /\ bodies[i].acceleration = bodies[j].acceleration
                /\ Len(bodies) = 2 => bodies[i].acceleration = ZERO

\* a pass over a coincident pair and a third body that pulls both
C11_Witness ==
    /\ pc = "update_body"
    /\ Len(bodies) = 3
    /\ bodies[1].global = bodies[2].global
    /\ bodies[1].acceleration # ZERO
    /\ bodies[3].acceleration # ZERO

\* C12: between physics ticks (everywhere but between gravity and
\* update_body of one tick) every body's acceleration is the zero vector:
\* at the start of each tick, in all frames while Stopped, after a spawn.
C12_AccelerationZeroBetweenTicks ==
    pc # "update_body" =>
        \A i \in 1..Len(bodies) : bodies[i].acceleration = ZERO

\* the end of a second tick of a frame, after forces have acted, with a
\* body spawned by a click
C12_Witness ==
    /\ pc = "fixed"
    /\ ticks = 2
    /\ Len(bodies) > Len(config.initial_bodies)
    /\ \E i \in 1..Len(bodies) : bodies[i].velocity # bodies[i].config.velocity
    /\ \A i \in 1..Len(bodies) : bodies[i].acceleration = ZERO

\* the acceleration the other bodies give body i, from the positions
\* update_body last committed (as f32, the Transform translations)
RECURSIVE CommittedSum(_, _, _)
CommittedSum(bs, i, j) ==
    IF j > Len(bs) THEN ZERO
    ELSE LET delta == VSub(bs[j].translation, bs[i].translation)
             d2 == length_squared(delta)
             rest == CommittedSum(bs, i, j + 1)
         IN  IF j = i \/ d2 = 0 THEN rest
             ELSE VAdd(VScale(VScale(delta, G \div d2), bs[j].mass), rest)

\* C13: on every tick gravity computes the deltas from the positions the
\* preceding update_body committed (the spawn position before the first),
\* also on the second and later ticks of one frame.
C13_GravityReadsTickStartPositions ==
    pc = "update_body" =>
        \A i \in 1..Len(bodies) :
            bodies[i].acceleration = CommittedSum(bodies, i, 1)

\* C14: update_trail does not append to a trail it has already appended to
\* unless update_body has run since.
C14_NoStaleDuplicate ==
    [][\A t \in 1..Len(trails) :
          (/\ Len(trailHist[t]) >= 2
           /\ Len(trailHist'[t]) > Len(trailHist[t])) => ticked]_vars

\* the live trails, and the trails whose spawn is queued
LiveTrails == {t \in 1..Len(trails) : trails[t].alive}
QueuedTrails == {k \in 1..Len(commands) : commands[k].kind = "SpawnTrail"}

\* C15: at most one trail per body: the trail entities (spawned or queued)
\* never outnumber the bodies, and every live trail is the trail of
\* exactly one body.
C15_OneTrailPerBody ==
    /\ Cardinality(LiveTrails) + Cardinality(QueuedTrails) <= Len(bodies)
    /\ \A t \in LiveTrails :
            Cardinality({i \in 1..Len(bodies) : bodies[i].trailRef = t}) = 1

\* three bodies, one of them clicked, each with its trail, at the end of a
\* frame in which draw_trail has run over the existing trails
C15_Witness ==
    /\ pc = "post_update"
    /\ frame = 4
    /\ Len(bodies) = 3
    /\ Cardinality(LiveTrails) = 3
    /\ Len(trailHist[1]) = 2

\* p is a prefix of q
IsPrefix(p, q) == Len(p) <= Len(q) /\ p = SubSeq(q, 1, Len(p))

\* C16: a trail, once created, stays: it is never despawned (draw_trail
\* never queues a despawn), its body keeps referring to it, and the points
\* stored in it are only ever added to by update_trail, whatever the
\* toggles of TrailState and SimulationState.
C16_TrailNeverDestroyed ==
    [][/\ Len(trails') >= Len(trails)
       /\ Len(bodies') >= Len(bodies)
       /\ \A t \in 1..Len(trails) :
            /\ trails[t].alive /\ trails'[t].alive
            /\ trails'[t].max_length = trails[t].max_length
            /\ IsPrefix(trailHist[t], trailHist'[t])
            /\ trails'[t].points # trails[t].points =>
                    Len(trailHist'[t]) = Len(trailHist[t]) + 1
       /\ \A i \in 1..Len(bodies) :
            bodies[i].trailRef # 0 =>
                bodies'[i].trailRef = bodies[i].trailRef
       /\ \A k \in 1..Len(commands') : commands'[k].kind # "Despawn"
      ]_vars

\* a trail created while shown, kept through a hidden frame and recorded
\* to again once shown
C16_Witness ==
    /\ pc = "post_update"
    /\ Len(log) = 3
    /\ log[1].trail = "Show" /\ log[2].trail = "Hide" /\ log[3].trail = "Show"
    /\ log[1].sim = "Running"
    /\ \E i \in 1..Len(bodies) :
            /\ bodies[i].trailRef # 0
            /\ Len(trailHist[bodies[i].trailRef]) = 2

\* C17: a primary-button press adds exactly one body, of mass 0.2, radius
\* 0.2, zero velocity and acceleration, trail capacity 20 and no trail, at
\* the pointer's world coordinate of the frame of the click (z = 0),
\* whatever the order of my_cursor_system and spawn_on_click; the existing
\* bodies are unchanged.
C17_ClickSpawnsAtPointer ==
    [][(pc = "update" /\ pc' = "post_update" /\ input.left) =>
        /\ Len(bodies') = Len(bodies) + 1
        /\ LET b == bodies'[Len(bodies')]
           IN  /\ b.mass = ClickMass
               /\ b.config.radius = ClickRadius
               /\ b.velocity = ZERO
               /\ b.acceleration = ZERO
               /\ b.config.trail_length = ClickTrailLength
               /\ b.trailRef = 0
               /\ input.cursor # NoCursor =>
                    b.position = <<input.cursor[1], input.cursor[2], 0>>
        /\ \A i \in 1..Len(bodies) :
                /\ bodies'[i].position = bodies[i].position
                /\ bodies'[i].velocity = bodies[i].velocity
                /\ bodies'[i].mass = bodies[i].mass
                /\ bodies'[i].config = bodies[i].config
    ]_vars

\* C18: a point update_trail appends is the position of its body as the
\* last completed update_body (or the spawn) left it: the append happens
\* in Update, after the fixed loop, when no tick is under way (every
\* acceleration consumed, Transform and Position of the body in step).
C18_TrailSeesCommittedPositions ==
    [][\A i \in 1..Len(bodies) :
        LET t == bodies[i].trailRef
        IN  (/\ t \in 1..Len(trails)
             /\ Len(trailHist'[t]) > Len(trailHist[t])) =>
                /\ pc = "update"
                /\ trailHist'[t][Len(trailHist'[t])] =
                        as_vec3(bodies[i].position)
                /\ bodies[i].translation = as_vec3(bodies[i].position)
                /\ \A j \in 1..Len(bodies) : bodies[j].acceleration = ZERO
    ]_vars

\* update_trail has just recorded, after ticks of this frame, a position
\* that gravity has changed
C18_Witness ==
    /\ pc = "update"
    /\ "update_trail" \notin toRun
    /\ "draw_trail" \in toRun
    /\ ~ticked
    /\ \E i \in 1..Len(bodies) :
            /\ bodies[i].trailRef # 0
            /\ bodies[i].velocity # bodies[i].config.velocity
            /\ LET h == trailHist[bodies[i].trailRef]
               IN  /\ Len(h) >= 2
                   /\ h[Len(h)] = as_vec3(bodies[i].position)
                   /\ h[Len(h)] # h[1]

\* C19: every existing trail holds at least one point, for every capacity
\* (0 included), so update_trail never removes from an empty vector.
C19_TrailNeverEmpty ==
    \A t \in LiveTrails :
        /\ Len(trails[t].points) >= 1
        /\ ~RemovePanics(trails[t])

\* a trail of capacity 0 that update_trail has recorded to
C19_Witness ==
    \E t \in LiveTrails :
        /\ trails[t].max_length = 0
        /\ Len(trailHist[t]) >= 2
        /\ Len(trails[t].points) = 1

====
